---- MODULE Spec2Model ----
(***************************************************************************)
(* frr-redux: the generic REST saga of src/frr/api.saga.ts.                *)
(*                                                                         *)
(* configureApiSaga registers callRestApi with takeEvery: every REST_CALL  *)
(* action forks one worker.  A worker puts the request action, optionally  *)
(* delays, races makeApiRequest (token provider, then fetch) against a     *)
(* 10000 ms timer, decodes the response body and puts success or failure.  *)
(*                                                                         *)
(* Time is discrete, in milliseconds.  Every asynchronous operation (token *)
(* provider, fetch, body decoding, saga delay) holds the time left until   *)
(* it settles; it can settle once that has run down to 0, and operations   *)
(* due at the same instant settle in any order.  A time left of Never is a *)
(* promise that stays pending.                                             *)
(*                                                                         *)
(* A worker stops at every yield.  Forking a worker, its put of the        *)
(* request action and its start (delay or race) are steps of their own,    *)
(* run by the saga scheduler in one synchronous run: REST_CALL actions     *)
(* queued together fork their workers before the first request action is   *)
(* put, the puts run in the order queued, and no timer or promise callback *)
(* runs in between.                                                        *)
(*                                                                         *)
(* The collaborators are taken at their interfaces: the store's dispatch   *)
(* returns (put does not throw), fetch resolves with a Response or         *)
(* rejects, Response.json() resolves with the parsed body or rejects, and  *)
(* the token provider resolves with a string or undefined, or rejects.     *)
(***************************************************************************)
EXTENDS Integers, Sequences, FiniteSets

\* ------------------------------------------------------------------ bounds

\* Workers (REST_CALL actions dispatched) in one behaviour.
MaxInv == 2

\* The raced timer of callRestApi: sagaDelay(10000).
TIMEOUT == 10000

\* A promise that never settles.
Never == 0 - 1

\* How long the token provider, fetch and body decoding may take.
Latencies == {0, 6000, 10000, Never}

\* ----------------------------------------------------------------- strings

\* A string is a sequence of one-character strings.
ApiPrefix == <<"/", "a", "p", "i">>
LoginPath == <<"/", "l", "o", "g", "i", "n">>
LogoutPath == <<"/", "l", "o", "g", "o", "u", "t">>
UserPathSlashes == <<"/", "u", "/", "/">>
BaseUrl == <<"h", ":", "/", "/", "b">>
OtherServer == <<"h", ":", "/", "/", "s">>

\* An optional value: <<>> is undefined, <<v>> is the value v.
Undefined == <<>>
Some(v) == <<v>>
IsDefined(o) == o # <<>>
Get(o) == o[1]

\* String.prototype.endsWith('/')
EndsWithSlash(s) == Len(s) > 0 /\ s[Len(s)] = "/"

\* endpoint.endsWith('/') ? endpoint.slice(0, endpoint.length - 1) : endpoint
StripEndpoint(endpoint) ==
    IF EndsWithSlash(endpoint) THEN SubSeq(endpoint, 1, Len(endpoint) - 1)
    ELSE endpoint

\* Mutant: server ?? config.baseUrl, an empty server is kept.
ServerOrBaseNullish(cfg, server) ==
    IF IsDefined(server) THEN Get(server) ELSE cfg.baseUrl

\* server || config.baseUrl: undefined and the empty string are falsy.
ServerOrBase(cfg, server) ==
    IF IsDefined(server) /\ Get(server) # <<>> THEN Get(server) ELSE cfg.baseUrl

\* `${server || config.baseUrl}/api${e}`
RequestUrl(cfg, server, endpoint) ==
    ServerOrBase(cfg, server) \o ApiPrefix \o StripEndpoint(endpoint)

\* ---------------------------------------------------------------- JS values

\* A decoded JSON value or an action payload: undefined or an object
\* given by its set of <<key, number>> fields.
JsUndefined == [kind |-> "undefined", fields |-> {}]
JsObject(fs) == [kind |-> "object", fields |-> fs]
EmptyObject == JsObject({})

\* Response bodies as text.
BodyEmptyObject == "{}"
BodyScore == "{\"score\":5}"
BodyError == "{\"error\":1}"
BodyHtml == "<html>"
BodyNothing == ""

\* Response.json(): the body text parsed as JSON; ok = FALSE is a rejection
\* (SyntaxError).
JsonParse(text) ==
    CASE text = BodyEmptyObject -> [ok |-> TRUE, value |-> EmptyObject]
      [] text = BodyScore -> [ok |-> TRUE, value |-> JsObject({<<"score", 5>>})]
      [] text = BodyError -> [ok |-> TRUE, value |-> JsObject({<<"error", 1>>})]
      [] OTHER -> [ok |-> FALSE, value |-> JsUndefined]

\* The responses fetch may resolve with: <<status, body text>>.
Responses ==
    { <<200, BodyScore>>, <<399, BodyEmptyObject>>, <<400, BodyError>>,
      <<401, BodyEmptyObject>>, <<200, BodyHtml>>, <<401, BodyNothing>> }

\* Values the token provider may resolve to: undefined, '' or a token.
Tokens == {Undefined, Some(""), Some("tok")}

\* -------------------------------------------------- configuration and calls

\* SagaApiConfig: baseUrl and whether a token provider (getToken) is given.
\* debug only logs to the console and is left out.
Configs == [baseUrl : {BaseUrl}, getToken : BOOLEAN]

\* The action triplets of two endpoints.
LoginTypes == [request |-> "LOGIN_REQUEST", success |-> "LOGIN_SUCCESS",
               failure |-> "LOGIN_FAILURE"]
LogoutTypes == [request |-> "LOGOUT_REQUEST", success |-> "LOGOUT_SUCCESS",
                failure |-> "LOGOUT_FAILURE"]

\* RestApiPayload: the payload of a REST_CALL action.  meta, body, delay and
\* server are optional.
Payloads ==
    { [types |-> LoginTypes, meta |-> Some("m1"), endpoint |-> LoginPath,
       body |-> Some("{\"username\":\"a\",\"password\":\"b\"}"),
       method |-> "POST", delay |-> Undefined, server |-> Undefined],
      [types |-> LoginTypes, meta |-> Some("m2"), endpoint |-> UserPathSlashes,
       body |-> Some("{\"username\":\"a\",\"password\":\"b\"}"),
       method |-> "POST", delay |-> Some(6000), server |-> Some(<<>>)],
      [types |-> LogoutTypes, meta |-> Undefined, endpoint |-> LogoutPath,
       body |-> Undefined,
       method |-> "GET", delay |-> Some(0), server |-> Some(OtherServer)] }

\* ------------------------------------------------------------------- state

VARIABLES
    config,      \* the SagaApiConfig the saga was configured with
    calls,       \* payloads of the REST_CALL actions dispatched; worker i runs calls[i]
    pc,          \* worker i: "idle" | "delay" | "race" | "json" | "done"
    timer,       \* worker i: ms left of its pending sagaDelay (delay or timeout)
    api,         \* makeApiRequest of worker i: [st, left]
    raw,         \* worker i: the response it decodes, [status, body, left]
    emitted,     \* the actions put, in order: [by, kind, type, payload, meta]
    tokenCalls,  \* calls of config.getToken made for worker i
    fetchCalls,  \* calls of fetch made for worker i: <<[url, method, headers, body]>>
    hist,        \* worker i: what settled, [race, token, tokenValue, fetch, status, body, json]
    listening,   \* ApiSaga's takeEvery still runs
    elapsed      \* worker i: ms since it started its race, while it runs

vars == <<config, calls, pc, timer, api, raw, emitted, tokenCalls,
          fetchCalls, hist, listening, elapsed>>

Workers == 1 .. MaxInv

NoRaw == [status |-> 0, body |-> "", left |-> Never]
NoApi == [st |-> "none", left |-> Never]
NoHist == [race |-> "none", token |-> "none", tokenValue |-> Undefined,
           fetch |-> "none", status |-> 0, body |-> "", json |-> "none", late |-> FALSE]

Init ==
    /\ config \in Configs
    /\ calls = <<>>
    /\ pc = [i \in Workers |-> "idle"]
    /\ timer = [i \in Workers |-> Never]
    /\ api = [i \in Workers |-> NoApi]
    /\ raw = [i \in Workers |-> NoRaw]
    /\ emitted = <<>>
    /\ tokenCalls = [i \in Workers |-> 0]
    /\ fetchCalls = [i \in Workers |-> <<>>]
    /\ hist = [i \in Workers |-> NoHist]
    /\ listening = TRUE
    /\ elapsed = [i \in Workers |-> 0]

\* An operation is due when no time is left.
IsDue(left) == left = 0

\* ------------------------------------------------------------ makeApiRequest

\* Mutant: the token is tested for truthiness, an empty token is not attached.
HeadersTruthyToken(token) ==
    (IF token = Undefined \/ Get(token) = "" THEN {}
     ELSE {<<"x-access-token", Get(token)>>})
    \cup {<<"Accept", "application/json">>, <<"Content-Type", "application/json">>}

\* The headers of the request (lines 27-35): x-access-token only when the
\* token is not undefined.
Headers(token) ==
    (IF token = Undefined THEN {} ELSE {<<"x-access-token", Get(token)>>})
    \cup {<<"Accept", "application/json">>, <<"Content-Type", "application/json">>}

\* The arguments fetch is called with (lines 25-47).
FetchArgs(cfg, p, token) ==
    [url |-> RequestUrl(cfg, p.server, p.endpoint),
     method |-> p.method,
     headers |-> Headers(token),
     body |-> p.body]

\* ------------------------------------------------------------------ actions put

\* { type: types.request, payload: undefined, meta } (lines 65-69)
RequestAction(p) ==
    [type |-> p.types.request, payload |-> JsUndefined, meta |-> p.meta]

\* { type: types.success, payload, meta } (lines 94-98)
SuccessAction(p, payload) ==
    [type |-> p.types.success, payload |-> payload, meta |-> p.meta]

\* Mutant: the failure action is put under the success label.
FailureActionSuccessType(p, payload) ==
    [type |-> p.types.success, payload |-> payload, meta |-> p.meta]

\* { type: types.failure, payload, meta } (lines 88-92, 104-108)
FailureAction(p, payload) ==
    [type |-> p.types.failure, payload |-> payload, meta |-> p.meta]

\* The entry of the log for action a put by worker i at the place of
\* callRestApi that puts its request, success or failure action.
Put(i, kind, a) ==
    [by |-> i, kind |-> kind, type |-> a.type, payload |-> a.payload,
     meta |-> a.meta]

\* Mutant: the worker forgets its request action.
PutRequestMissing(i, p) == <<>>

\* Lines 65-69: what a worker puts first.
PutRequest(i, p) == <<Put(i, "request", RequestAction(p))>>

\* Mutants: the status test off by one, either way.
IsHttpErrorFrom399(status) == status >= 399
IsHttpErrorAbove400(status) == status > 400

\* raw.status >= 400
IsHttpError(status) == status >= 400

\* Mutant: the else is missing, the failure branch falls through to success.
OnDecodedFallThrough(i, p, status, payload) ==
    IF IsHttpError(status)
    THEN <<Put(i, "failure", FailureAction(p, payload)),
           Put(i, "success", SuccessAction(p, payload))>>
    ELSE <<Put(i, "success", SuccessAction(p, payload))>>

\* Mutant: an error status ends the worker without an action.
OnDecodedDropsErrors(i, p, status, payload) ==
    IF IsHttpError(status) THEN <<>>
    ELSE <<Put(i, "success", SuccessAction(p, payload))>>

\* Lines 87-99: what a worker puts once the body is decoded.
OnDecoded(i, p, status, payload) ==
    IF IsHttpError(status) THEN <<Put(i, "failure", FailureAction(p, payload))>>
    ELSE <<Put(i, "success", SuccessAction(p, payload))>>

\* Mutant: the catch block puts no payload.
OnCatchUndefined(i, p) == <<Put(i, "failure", FailureAction(p, JsUndefined))>>

\* Lines 100-108: what the catch block puts.
OnCatch(i, p) == <<Put(i, "failure", FailureAction(p, EmptyObject))>>

\* Mutant: the return on !raw is missing, raw.json() throws on undefined and
\* the catch block runs.
OnTimeoutFailure(i, p) == <<Put(i, "failure", FailureAction(p, EmptyObject))>>

\* Lines 81-83: what a worker puts when the timeout won the race.
OnTimeout(i, p) == <<>>

\* Mutant: takeLatest, forking worker i cancels the workers in flight.
TakeLatest(workers, i) ==
    [j \in Workers |->
        IF j < i /\ workers[j] \in {"forked", "put", "delay", "race", "json"}
        THEN "cancelled"
        ELSE workers[j]]

\* takeEvery: forking worker i leaves the workers in flight as they are.
TakeEvery(workers, i) == workers

\* ------------------------------------------------------------------ the saga

\* Mutant: one payload shared by all workers, overwritten by every call.
PayloadOfLatest(i) == calls[Len(calls)]

\* Lines 55-63: the payload worker i destructured from its own action.
PayloadOf(i) == calls[i]

\* Mutant: no try/catch, the error of a worker reaches ApiSaga and ends it.
AfterThrowUncaught(l) == FALSE

\* Lines 75, 100: an error thrown in the try block is caught by the worker;
\* it does not reach ApiSaga, whose takeEvery goes on as it was (l).
AfterThrow(l) == l

\* Mutant: the timeout is counted from the dispatch, the delay uses it up.
StartRaceDelayCounted(i, p, l, workers) ==
    /\ pc' = [workers EXCEPT ![i] = "race"]
    /\ timer' = [timer EXCEPT
                   ![i] = IF IsDefined(p.delay) THEN TIMEOUT - Get(p.delay)
                          ELSE TIMEOUT]
    /\ IF config.getToken
       THEN /\ tokenCalls' = [tokenCalls EXCEPT ![i] = @ + 1]
            /\ api' = [api EXCEPT ![i] = [st |-> "token", left |-> l]]
            /\ UNCHANGED fetchCalls
       ELSE /\ fetchCalls' = [fetchCalls EXCEPT
                                ![i] = Append(@, FetchArgs(config, p, Undefined))]
            /\ api' = [api EXCEPT ![i] = [st |-> "fetch", left |-> l]]
            /\ UNCHANGED tokenCalls

\* Lines 76-79, with makeApiRequest run to its first await (lines 21-24) or,
\* with no token provider, to its call of fetch (lines 25-47).  l is the
\* latency of the operation started; workers is pc as the caller leaves it.
StartRace(i, p, l, workers) ==
    /\ pc' = [workers EXCEPT ![i] = "race"]
    /\ timer' = [timer EXCEPT ![i] = TIMEOUT]
    /\ IF config.getToken
       THEN /\ tokenCalls' = [tokenCalls EXCEPT ![i] = @ + 1]
            /\ api' = [api EXCEPT ![i] = [st |-> "token", left |-> l]]
            /\ UNCHANGED fetchCalls
       ELSE /\ fetchCalls' = [fetchCalls EXCEPT
                                ![i] = Append(@, FetchArgs(config, p, Undefined))]
            /\ api' = [api EXCEPT ![i] = [st |-> "fetch", left |-> l]]
            /\ UNCHANGED tokenCalls

\* The saga scheduler is running queued tasks: a worker was forked and has
\* not yet started its delay or its race.  This is one synchronous run, in
\* which no timer and no promise callback runs and no time passes.
Flushing == \E j \in Workers : pc[j] \in {"forked", "put"}

\* A REST_CALL action with payload p is dispatched: takeEvery forks worker i,
\* which destructures the payload and stops at its put of the request
\* action, queued by the scheduler (lines 112-116, 55-65).  A REST_CALL
\* dispatched while a request action is being put is taken once that
\* worker has started.
Dispatch(p) ==
    LET i == Len(calls) + 1 IN
    /\ i <= MaxInv
    /\ listening
    /\ \A j \in Workers : pc[j] # "put"
    /\ calls' = Append(calls, p)
    /\ pc' = [TakeEvery(pc, i) EXCEPT ![i] = "forked"]
    /\ UNCHANGED <<config, timer, api, raw, emitted, tokenCalls, fetchCalls,
                   hist, listening, elapsed>>

\* The scheduler runs the queued put of worker i, the first one queued: the
\* request action reaches the store (lines 65-69).
RequestPut(i) ==
    /\ pc[i] = "forked"
    /\ \A j \in Workers : pc[j] # "put" /\ (j < i => pc[j] # "forked")
    /\ emitted' = emitted \o PutRequest(i, PayloadOf(i))
    /\ pc' = [pc EXCEPT ![i] = "put"]
    /\ UNCHANGED <<config, calls, timer, api, raw, tokenCalls, fetchCalls,
                   hist, listening, elapsed>>

\* The put of worker i is done and the worker goes on: it starts its delay
\* or, with no delay, the race (lines 71-79).
Start(i) ==
    /\ pc[i] = "put"
    /\ IF IsDefined(PayloadOf(i).delay)
       THEN /\ pc' = [pc EXCEPT ![i] = "delay"]
            /\ timer' = [timer EXCEPT ![i] = Get(PayloadOf(i).delay)]
            /\ UNCHANGED <<api, tokenCalls, fetchCalls>>
       ELSE \E l \in Latencies : StartRace(i, PayloadOf(i), l, pc)
    /\ UNCHANGED <<config, calls, raw, emitted, hist, listening, elapsed>>

\* The delay of worker i has elapsed (lines 71-73): it starts the race.
DelayElapsed(i) ==
    /\ ~Flushing
    /\ pc[i] = "delay"
    /\ IsDue(timer[i])
    /\ \E l \in Latencies : StartRace(i, PayloadOf(i), l, pc)
    /\ UNCHANGED <<config, calls, raw, emitted, hist, listening, elapsed>>

\* The raw side of worker i's race rejected: while the race is pending the
\* worker's catch block runs (lines 100-109); after it the rejection is
\* discarded.
RawRejected(i) ==
    IF pc[i] = "race"
    THEN /\ pc' = [pc EXCEPT ![i] = "done"]
         /\ timer' = [timer EXCEPT ![i] = Never]
         /\ emitted' = emitted \o OnCatch(i, PayloadOf(i))
         /\ listening' = AfterThrow(listening)
         /\ elapsed' = [elapsed EXCEPT ![i] = 0]
    ELSE UNCHANGED <<pc, timer, emitted, listening, elapsed>>

\* Mutant: the token is fetched before the race, whose timer starts with
\* the call of fetch.
TokenResolveRestartsTimer(i, tok) ==
    /\ ~Flushing
    /\ api[i].st = "token"
    /\ IsDue(api[i].left)
    /\ \E l \in Latencies :
         api' = [api EXCEPT ![i] = [st |-> "fetch", left |-> l]]
    /\ fetchCalls' = [fetchCalls EXCEPT
                        ![i] = Append(@, FetchArgs(config, PayloadOf(i), tok))]
    /\ hist' = [hist EXCEPT ![i].token = "resolved", ![i].tokenValue = tok]
    /\ timer' = [timer EXCEPT ![i] = IF pc[i] = "race" THEN TIMEOUT ELSE @]
    /\ UNCHANGED <<config, calls, pc, raw, emitted, tokenCalls,
                   listening, elapsed>>

\* await config.getToken() resolved with tok (line 23): makeApiRequest builds
\* the request and calls fetch (lines 25-47), whether or not the worker still
\* waits for it.
TokenResolve(i, tok) ==
    /\ ~Flushing
    /\ api[i].st = "token"
    /\ IsDue(api[i].left)
    /\ \E l \in Latencies :
         api' = [api EXCEPT ![i] = [st |-> "fetch", left |-> l]]
    /\ fetchCalls' = [fetchCalls EXCEPT
                        ![i] = Append(@, FetchArgs(config, PayloadOf(i), tok))]
    /\ hist' = [hist EXCEPT ![i].token = "resolved", ![i].tokenValue = tok]
    /\ UNCHANGED <<config, calls, pc, timer, raw, emitted, tokenCalls,
                   listening, elapsed>>

\* Mutant: makeApiRequest swallows the token provider's error and calls fetch
\* without a token.
TokenRejectedSwallowed(i) ==
    /\ \E l \in Latencies :
         api' = [api EXCEPT ![i] = [st |-> "fetch", left |-> l]]
    /\ fetchCalls' = [fetchCalls EXCEPT
                        ![i] = Append(@, FetchArgs(config, calls[i], Undefined))]
    /\ hist' = [hist EXCEPT ![i].token = "rejected"]
    /\ UNCHANGED <<config, calls, pc, timer, raw, emitted, tokenCalls,
                   listening, elapsed>>

\* await config.getToken() threw (line 23): makeApiRequest rejects without
\* calling fetch.
TokenRejected(i) ==
    /\ api' = [api EXCEPT ![i] = [st |-> "tokenRejected", left |-> Never]]
    /\ hist' = [hist EXCEPT ![i].token = "rejected",
                            ![i].race = IF pc[i] = "race" THEN "error" ELSE @]
    /\ RawRejected(i)
    /\ UNCHANGED <<config, calls, raw, tokenCalls, fetchCalls>>

TokenReject(i) ==
    /\ ~Flushing
    /\ api[i].st = "token"
    /\ IsDue(api[i].left)
    /\ TokenRejected(i)

\* fetch resolved with a response (line 47).  While the race is pending the
\* worker wins it with raw, the timer is cancelled and raw.json() is called
\* (line 85); after the timeout the response is discarded.
FetchResolve(i, status, body) ==
    /\ ~Flushing
    /\ api[i].st = "fetch"
    /\ IsDue(api[i].left)
    /\ api' = [api EXCEPT ![i] = [st |-> "resolved", left |-> Never]]
    /\ hist' = [hist EXCEPT ![i].fetch = "resolved", ![i].status = status,
                            ![i].body = body,
                            ![i].race = IF pc[i] = "race" THEN "raw" ELSE @]
    /\ IF pc[i] = "race"
       THEN /\ pc' = [pc EXCEPT ![i] = "json"]
            /\ timer' = [timer EXCEPT ![i] = Never]
            /\ \E l \in Latencies :
                 raw' = [raw EXCEPT ![i] = [status |-> status, body |-> body,
                                            left |-> l]]
       ELSE UNCHANGED <<pc, timer, raw>>
    /\ UNCHANGED <<config, calls, emitted, tokenCalls, fetchCalls, listening,
                   elapsed>>

\* Mutant: a rejected fetch is tried once more before the rejection is passed
\* on.
FetchRejectRetry(i) ==
    /\ ~Flushing
    /\ api[i].st = "fetch"
    /\ IsDue(api[i].left)
    /\ IF Len(fetchCalls[i]) < 2
       THEN /\ fetchCalls' = [fetchCalls EXCEPT ![i] = Append(@, @[1])]
            /\ \E l \in Latencies :
                 api' = [api EXCEPT ![i] = [st |-> "fetch", left |-> l]]
            /\ UNCHANGED <<config, calls, pc, timer, raw, emitted, tokenCalls,
                           hist, listening, elapsed>>
       ELSE /\ api' = [api EXCEPT ![i] = [st |-> "fetchRejected", left |-> Never]]
            /\ hist' = [hist EXCEPT ![i].fetch = "rejected",
                                    ![i].race = IF pc[i] = "race" THEN "error" ELSE @]
            /\ RawRejected(i)
            /\ UNCHANGED <<config, calls, raw, tokenCalls, fetchCalls>>

\* fetch rejected (line 47).
FetchReject(i) ==
    /\ ~Flushing
    /\ api[i].st = "fetch"
    /\ IsDue(api[i].left)
    /\ api' = [api EXCEPT ![i] = [st |-> "fetchRejected", left |-> Never]]
    /\ hist' = [hist EXCEPT ![i].fetch = "rejected",
                            ![i].race = IF pc[i] = "race" THEN "error" ELSE @]
    /\ RawRejected(i)
    /\ UNCHANGED <<config, calls, raw, tokenCalls, fetchCalls>>

\* The 10000 ms timer of worker i fired while the race was pending: raw is
\* undefined and the worker returns (lines 81-83).
Timeout(i) ==
    /\ ~Flushing
    /\ pc[i] = "race"
    /\ IsDue(timer[i])
    /\ pc' = [pc EXCEPT ![i] = "done"]
    /\ timer' = [timer EXCEPT ![i] = Never]
    /\ emitted' = emitted \o OnTimeout(i, PayloadOf(i))
    /\ hist' = [hist EXCEPT ![i].race = "timeout"]
    /\ elapsed' = [elapsed EXCEPT ![i] = 0]
    /\ UNCHANGED <<config, calls, api, raw, tokenCalls, fetchCalls, listening>>

\* Mutant: the decoding is raced against the timeout too, a body decoded
\* after the 10000 ms is dropped.
JsonSettleTimed(i) ==
    /\ ~Flushing
    /\ pc[i] = "json"
    /\ IsDue(raw[i].left)
    /\ LET r == JsonParse(raw[i].body) IN
       /\ emitted' = emitted \o
              (IF elapsed[i] > TIMEOUT THEN OnTimeout(i, PayloadOf(i))
               ELSE IF r.ok
               THEN OnDecoded(i, PayloadOf(i), raw[i].status, r.value)
               ELSE OnCatch(i, PayloadOf(i)))
       /\ hist' = [hist EXCEPT ![i].json = IF r.ok THEN "ok" ELSE "error",
                               ![i].late = elapsed[i] > TIMEOUT]
       /\ listening' = IF r.ok THEN listening ELSE AfterThrow(listening)
    /\ pc' = [pc EXCEPT ![i] = "done"]
    /\ raw' = [raw EXCEPT ![i] = NoRaw]
    /\ elapsed' = [elapsed EXCEPT ![i] = 0]
    /\ UNCHANGED <<config, calls, timer, api, tokenCalls, fetchCalls>>

\* Mutant: workers deliver in dispatch order, a decoded body waits for every
\* earlier worker to be over.
JsonSettleInOrder(i) ==
    /\ ~Flushing
    /\ pc[i] = "json"
    /\ IsDue(raw[i].left)
    /\ \A j \in 1 .. i - 1 : pc[j] = "done"
    /\ LET r == JsonParse(raw[i].body) IN
       /\ emitted' = emitted \o
              (IF r.ok THEN OnDecoded(i, PayloadOf(i), raw[i].status, r.value)
               ELSE OnCatch(i, PayloadOf(i)))
       /\ hist' = [hist EXCEPT ![i].json = IF r.ok THEN "ok" ELSE "error",
                               ![i].late = elapsed[i] > TIMEOUT]
       /\ listening' = IF r.ok THEN listening ELSE AfterThrow(listening)
    /\ pc' = [pc EXCEPT ![i] = "done"]
    /\ raw' = [raw EXCEPT ![i] = NoRaw]
    /\ elapsed' = [elapsed EXCEPT ![i] = 0]
    /\ UNCHANGED <<config, calls, timer, api, tokenCalls, fetchCalls>>

\* raw.json() settled (line 85): decoded, the worker puts failure or success
\* by the status (lines 87-99); rejected, its catch block runs (lines 100-109).
JsonSettle(i) ==
    /\ ~Flushing
    /\ pc[i] = "json"
    /\ IsDue(raw[i].left)
    /\ LET r == JsonParse(raw[i].body) IN
       /\ emitted' = emitted \o
              (IF r.ok THEN OnDecoded(i, PayloadOf(i), raw[i].status, r.value)
               ELSE OnCatch(i, PayloadOf(i)))
       /\ hist' = [hist EXCEPT ![i].json = IF r.ok THEN "ok" ELSE "error",
                               ![i].late = elapsed[i] > TIMEOUT]
       /\ listening' = IF r.ok THEN listening ELSE AfterThrow(listening)
    /\ pc' = [pc EXCEPT ![i] = "done"]
    /\ raw' = [raw EXCEPT ![i] = NoRaw]
    /\ elapsed' = [elapsed EXCEPT ![i] = 0]
    /\ UNCHANGED <<config, calls, timer, api, tokenCalls, fetchCalls>>

\* ------------------------------------------------------------------- time

\* The times left of everything pending.
Pending ==
    ({timer[i] : i \in {j \in Workers : pc[j] \in {"delay", "race"}}}
     \cup {api[i].left : i \in {j \in Workers : api[j].st \in {"token", "fetch"}}}
     \cup {raw[i].left : i \in {j \in Workers : pc[j] = "json"}})
    \ {Never}

\* A time left after d ms have passed.
After(left, d) == IF left = Never THEN Never ELSE left - d

\* Nothing is due: time passes until the next operation is.
Tick ==
    /\ ~Flushing
    /\ Pending # {}
    /\ \A d \in Pending : d > 0
    /\ LET d == CHOOSE x \in Pending : \A e \in Pending : x <= e IN
       /\ timer' = [i \in Workers |-> After(timer[i], d)]
       /\ api' = [i \in Workers |-> [api[i] EXCEPT !.left = After(@, d)]]
       /\ raw' = [i \in Workers |-> [raw[i] EXCEPT !.left = After(@, d)]]
       /\ elapsed' = [i \in Workers |->
                        IF pc[i] \in {"race", "json"} THEN elapsed[i] + d
                        ELSE elapsed[i]]
    /\ UNCHANGED <<config, calls, pc, emitted, tokenCalls, fetchCalls, hist,
                   listening>>

Next ==
    \/ \E p \in Payloads : Dispatch(p)
    \/ \E i \in Workers : RequestPut(i)
    \/ \E i \in Workers : Start(i)
    \/ \E i \in Workers : DelayElapsed(i)
    \/ \E i \in Workers, tok \in Tokens : TokenResolve(i, tok)
    \/ \E i \in Workers : TokenReject(i)
    \/ \E i \in Workers, r \in Responses : FetchResolve(i, r[1], r[2])
    \/ \E i \in Workers : FetchReject(i)
    \/ \E i \in Workers : Timeout(i)
    \/ \E i \in Workers : JsonSettle(i)
    \/ Tick

Spec == Init /\ [][Next]_vars

\* The event loop runs every timer that is due and every promise callback
\* whose promise can settle; dispatching REST_CALL actions is up to the
\* application.
Fairness ==
    /\ WF_vars(Tick)
    /\ \A i \in Workers :
         /\ WF_vars(RequestPut(i))
         /\ WF_vars(Start(i))
         /\ WF_vars(DelayElapsed(i))
         /\ WF_vars(Timeout(i))
         /\ WF_vars(JsonSettle(i))
         /\ WF_vars((\E tok \in Tokens : TokenResolve(i, tok)) \/ TokenReject(i))
         /\ WF_vars((\E r \in Responses : FetchResolve(i, r[1], r[2]))
                      \/ FetchReject(i))

\* Termination does not depend on what a call carries, so the fair
\* specification runs the same handlers on the calls that wait before the
\* race or do not wait at all, with one token value.
FairPayloads == {p \in Payloads : p.delay # Some(0)}

FairTokens == {Some("tok")}

NextFair ==
    \/ \E p \in FairPayloads : Dispatch(p)
    \/ \E i \in Workers : RequestPut(i)
    \/ \E i \in Workers : Start(i)
    \/ \E i \in Workers : DelayElapsed(i)
    \/ \E i \in Workers, tok \in FairTokens : TokenResolve(i, tok)
    \/ \E i \in Workers : TokenReject(i)
    \/ \E i \in Workers, r \in Responses : FetchResolve(i, r[1], r[2])
    \/ \E i \in Workers : FetchReject(i)
    \/ \E i \in Workers : Timeout(i)
    \/ \E i \in Workers : JsonSettle(i)
    \/ Tick

FairSpec == Init /\ [][NextFair]_vars /\ Fairness

\* ------------------------------------------------------------------ the log

\* Worker i was forked: its REST_CALL action was dispatched.
Dispatched(i) == i <= Len(calls)

\* The actions worker i put, in order.
ActionsBy(i) == SelectSeq(emitted, LAMBDA a : a.by = i)

\* The actions as dispatched, without the log's own fields.
Plain(as) == [k \in 1 .. Len(as) |->
                [type |-> as[k].type, payload |-> as[k].payload, meta |-> as[k].meta]]

\* Positions in the log of worker i's actions of the given types.
Positions(i, types) ==
    {k \in 1 .. Len(emitted) : emitted[k].by = i /\ emitted[k].type \in types}

RequestPositions(i) == Positions(i, {calls[i].types.request})
SuccessPositions(i) == Positions(i, {calls[i].types.success})
FailurePositions(i) == Positions(i, {calls[i].types.failure})
TerminalPositions(i) == SuccessPositions(i) \cup FailurePositions(i)

\* ------------------------------------------------------------------ claims

\* C1: every call invocation has exactly one request action in the log, of
\* the invocation's request label, from the put that is the first thing its
\* worker does, and it comes before every success or failure action of the
\* same invocation, however the invocation goes on.  A worker whose put is
\* still queued has put nothing, and the scheduler can always run a queued
\* put or let the worker that has put go on; a worker not forked has put
\* nothing.
C1_OneRequestFirst ==
    /\ \A i \in Workers :
          IF Dispatched(i)
          THEN /\ Cardinality(RequestPositions(i)) = IF pc[i] = "forked" THEN 0 ELSE 1
               /\ pc[i] = "forked" => ActionsBy(i) = <<>>
               /\ \A r \in RequestPositions(i), t \in TerminalPositions(i) : r < t
          ELSE ActionsBy(i) = <<>>
    /\ Flushing => ENABLED (\E i \in Workers : RequestPut(i) \/ Start(i))

\* Two invocations are over, one dropped by the timeout and one failed, each
\* with its request action put.
C1_Witness ==
    /\ Len(calls) = 2
    /\ pc[1] = "done" /\ hist[1].race = "timeout"
    /\ pc[2] = "done" /\ FailurePositions(2) # {}
    /\ RequestPositions(1) # {} /\ RequestPositions(2) # {}

\* C2: an invocation never has more than one terminal action (success or
\* failure) in the log, and an invocation that is over has none only when
\* the timeout won its race.
C2_AtMostOneTerminal ==
    \A i \in Workers :
        Dispatched(i) =>
            /\ Cardinality(TerminalPositions(i)) <= 1
            /\ (pc[i] = "done" /\ TerminalPositions(i) = {})
                  => hist[i].race = "timeout"

\* One invocation is over with no terminal action, the other with one.
C2_Witness ==
    /\ Len(calls) = 2
    /\ pc[1] = "done" /\ TerminalPositions(1) = {}
    /\ pc[2] = "done" /\ Cardinality(TerminalPositions(2)) = 1
    /\ hist[2].fetch = "resolved" /\ hist[2].status >= 400

\* The worker of invocation i received a response (fetch resolved while the
\* race was pending) and its body was decoded.
Decoded(i) ==
    /\ Dispatched(i) /\ pc[i] = "done"
    /\ hist[i].race = "raw" /\ hist[i].json = "ok"

\* C3: a response with status < 400 whose body decodes gives the request
\* action and then a success action with the decoded body, and nothing else;
\* 399 is on the success side, 400 gives no success action.  (A response that
\* comes after the timeout has won is discarded, C6; a body that does not
\* decode gives a failure, C5.)
C3_SuccessBelow400 ==
    \A i \in Workers :
        Decoded(i) =>
            /\ hist[i].status < 400 =>
                 Plain(ActionsBy(i)) =
                    << RequestAction(calls[i]),
                       SuccessAction(calls[i], JsonParse(hist[i].body).value) >>
            /\ hist[i].status = 400 => SuccessPositions(i) = {}

\* POST /login answered 200 {"score":5}: request, then success with payload
\* {score: 5}; and another invocation answered 399 has its success action.
C3_Witness ==
    /\ Len(calls) = 2
    /\ Decoded(1) /\ hist[1].status = 200 /\ hist[1].body = BodyScore
    /\ calls[1].method = "POST" /\ calls[1].endpoint = LoginPath
    /\ Len(ActionsBy(1)) = 2
    /\ ActionsBy(1)[2].type = "LOGIN_SUCCESS"
    /\ ActionsBy(1)[2].payload = JsObject({<<"score", 5>>})
    /\ Decoded(2) /\ hist[2].status = 399 /\ SuccessPositions(2) # {}

\* C4: a response with status >= 400 whose body decodes gives the request
\* action and then a failure action whose payload is the decoded body, and no
\* success action.  (A response that comes after the timeout has won is
\* discarded, C6.)
C4_FailureFrom400 ==
    \A i \in Workers :
        (Decoded(i) /\ hist[i].status >= 400) =>
            /\ Plain(ActionsBy(i)) =
                  << RequestAction(calls[i]),
                     FailureAction(calls[i], JsonParse(hist[i].body).value) >>
            /\ SuccessPositions(i) = {}

\* Answered 401 {}: request, then failure with payload {}; and another
\* invocation answered 400 {"error":1} has failed with that payload.
C4_Witness ==
    /\ Len(calls) = 2
    /\ Decoded(1) /\ hist[1].status = 401 /\ hist[1].body = BodyEmptyObject
    /\ Len(ActionsBy(1)) = 2
    /\ ActionsBy(1)[2].type = calls[1].types.failure
    /\ ActionsBy(1)[2].payload = EmptyObject
    /\ Decoded(2) /\ hist[2].status = 400
    /\ ActionsBy(2)[2].payload = JsObject({<<"error", 1>>})

\* The worker of invocation i saw fetch reject while the race was pending,
\* or received a response whose body did not decode.
Threw(i) ==
    /\ Dispatched(i)
    /\ \/ hist[i].race = "error" /\ hist[i].fetch = "rejected"
       \/ hist[i].race = "raw" /\ hist[i].json = "error"

\* C5: when fetch rejects, or the body of the response does not decode
\* (whatever the status), the invocation is over with the request action and
\* then one failure action with payload {} and the invocation's meta, and no
\* success action.  (A rejection that comes after the timeout has won is
\* discarded, C6.)
C5_FailureEmptyOnThrow ==
    \A i \in Workers :
        Threw(i) =>
            /\ pc[i] = "done"
            /\ Plain(ActionsBy(i)) =
                  << RequestAction(calls[i]),
                     [type |-> calls[i].types.failure, payload |-> EmptyObject,
                      meta |-> calls[i].meta] >>
            /\ SuccessPositions(i) = {}

\* One invocation got 200 with a body that is not JSON, the other saw fetch
\* reject; both have their failure action.
C5_Witness ==
    /\ Len(calls) = 2
    /\ hist[1].json = "error" /\ hist[1].status = 200
    /\ hist[2].fetch = "rejected" /\ hist[2].race = "error"
    /\ FailurePositions(1) # {} /\ FailurePositions(2) # {}
    /\ calls[2].meta # Undefined

\* C6: once the timeout has won the race of an invocation, the invocation is
\* over and its request action is all it ever has in the log, also after the
\* response of the call that lost arrives.
C6_TimeoutDropsSilently ==
    \A i \in Workers :
        (Dispatched(i) /\ hist[i].race = "timeout") =>
            /\ pc[i] = "done"
            /\ Plain(ActionsBy(i)) = << RequestAction(calls[i]) >>

\* The timeout won and the response arrived afterwards.
C6_Witness ==
    \E i \in Workers :
        /\ Dispatched(i) /\ hist[i].race = "timeout"
        /\ api[i].st = "resolved" /\ hist[i].status = 200
        /\ Len(ActionsBy(i)) = 1

\* C7: every action in the log has the meta of the invocation whose worker
\* put it and the label of that invocation for its kind: the request label
\* at the first put, the success label in the success branch, the failure
\* label in the failure branch and in the catch block; the request action
\* has payload undefined.
C7_OwnLabelsAndMeta ==
    \A k \in 1 .. Len(emitted) :
        LET a == emitted[k]
            p == calls[a.by]
        IN /\ Dispatched(a.by)
           /\ a.meta = p.meta
           /\ a.kind = "request" => (a.type = p.types.request /\ a.payload = JsUndefined)
           /\ a.kind = "success" => a.type = p.types.success
           /\ a.kind = "failure" => a.type = p.types.failure
           /\ a.kind \in {"request", "success", "failure"}

\* Two invocations of different endpoints and metas, one succeeded and one
\* failed.
C7_Witness ==
    /\ Len(calls) = 2
    /\ calls[1].types # calls[2].types /\ calls[1].meta # calls[2].meta
    /\ SuccessPositions(1) # {} /\ FailurePositions(2) # {}

\* A step that dispatches a REST_CALL action.
Forks == Len(calls') = Len(calls) + 1

\* Worker j is the same before and after the step.
Untouched(j) ==
    /\ pc'[j] = pc[j] /\ timer'[j] = timer[j] /\ api'[j] = api[j]
    /\ raw'[j] = raw[j] /\ hist'[j] = hist[j]

\* C8: a REST_CALL action is taken whatever the workers in flight (delayed,
\* racing or decoding) are doing; the step that takes it forks its worker
\* and leaves every earlier worker exactly as it was; the put of its
\* request action waits for nothing but the puts queued before it, and that
\* put and the start that follows leave every other worker as it was.
C8_ForkedNotSuperseded ==
    /\ []((Len(calls) < MaxInv /\ \A j \in Workers : pc[j] # "put")
            => ENABLED (\E p \in Payloads : Dispatch(p)))
    /\ [](\A i \in Workers :
            pc[i] = "forked" =>
               \/ ENABLED RequestPut(i)
               \/ \E j \in 1 .. i - 1 : pc[j] \in {"forked", "put"})
    /\ [][Forks =>
            LET i == Len(calls') IN
            /\ pc'[i] = "forked"
            /\ emitted' = emitted
            /\ \A j \in 1 .. Len(calls) : Untouched(j)]_vars
    /\ [][\A i \in Workers :
            (pc[i] \in {"forked", "put"} /\ pc'[i] # pc[i]) =>
               /\ pc[i] = "forked" =>
                     emitted' = emitted
                        \o <<Put(i, "request", RequestAction(calls[i]))>>
               /\ pc[i] = "put" => (pc'[i] \in {"delay", "race"} /\ emitted' = emitted)
               /\ \A j \in Workers \ {i} : Untouched(j)]_vars

\* The second invocation was dispatched while the first was in flight, and
\* the first still got its terminal action.
C8_Witness ==
    /\ Len(calls) = 2
    /\ \E r \in RequestPositions(2), t \in TerminalPositions(1) : r < t
    /\ pc[2] \in {"delay", "race", "json"}

\* C9: when the token provider rejects, fetch is never called for the
\* invocation; the rejection reaches the worker's catch block, which puts one
\* failure action with payload {} after the request action, and nothing
\* else.  (The provider is inside the race: a rejection that comes after the
\* timeout has won is discarded, C6, C17.)
C9_TokenRejectionFails ==
    \A i \in Workers :
        (Dispatched(i) /\ hist[i].token = "rejected") =>
            /\ fetchCalls[i] = <<>>
            /\ hist[i].race \in {"error", "timeout"}
            /\ hist[i].race = "error" =>
                 /\ pc[i] = "done"
                 /\ Plain(ActionsBy(i)) =
                       << RequestAction(calls[i]),
                          FailureAction(calls[i], EmptyObject) >>

\* The token provider rejected and the failure action is in the log.
C9_Witness ==
    \E i \in Workers :
        /\ Dispatched(i) /\ hist[i].token = "rejected" /\ hist[i].race = "error"
        /\ FailurePositions(i) # {} /\ tokenCalls[i] = 1

\* The value of the x-access-token header of a request, as a set.
AccessToken(req) == {h[2] : h \in {x \in req.headers : x[1] = "x-access-token"}}

\* C10: with a token provider configured, it is called at most once for an
\* invocation and exactly once from the start of the race on, fetch is only
\* called after it has resolved, and the request has the x-access-token
\* header, with the resolved value, exactly when that value is not undefined
\* (an empty string is attached).  With no provider it is never called and
\* no request has the header.
C10_TokenHeader ==
    \A i \in Workers :
        /\ config.getToken =>
             /\ tokenCalls[i] = IF pc[i] \in {"idle", "forked", "put", "delay"} THEN 0
                              ELSE 1
             /\ fetchCalls[i] # <<>> => hist[i].token = "resolved"
             /\ \A k \in 1 .. Len(fetchCalls[i]) :
                  AccessToken(fetchCalls[i][k]) =
                     IF hist[i].tokenValue = Undefined THEN {}
                     ELSE {Get(hist[i].tokenValue)}
        /\ ~config.getToken =>
             /\ tokenCalls[i] = 0
             /\ \A k \in 1 .. Len(fetchCalls[i]) :
                  AccessToken(fetchCalls[i][k]) = {}

\* One request went out with an empty token attached, another with none
\* because the provider resolved to undefined.
C10_Witness ==
    /\ config.getToken
    /\ Len(fetchCalls[1]) = 1 /\ AccessToken(fetchCalls[1][1]) = {""}
    /\ hist[1].tokenValue = Some("")
    /\ Len(fetchCalls[2]) = 1 /\ AccessToken(fetchCalls[2][1]) = {}
    /\ hist[2].token = "resolved"

\* makeApiRequest was called for worker i in this step: the token provider
\* or, with none configured, fetch was called.
CallIssued(i) ==
    IF config.getToken THEN tokenCalls'[i] = tokenCalls[i] + 1
    ELSE Len(fetchCalls'[i]) = Len(fetchCalls[i]) + 1

\* C11: an invocation with a delay (0 included) has put its request action
\* when the delay starts, and while it is delayed neither the token provider
\* nor fetch has been called and no timeout runs; the step in which the delay
\* elapses calls makeApiRequest and starts the timeout at its full 10000 ms.
\* A worker that has put its request action has called nothing yet and goes
\* on at once: with a delay it starts the delay, with none it calls
\* makeApiRequest and starts the timeout.
C11_DelayBeforeRace ==
    /\ [](\A i \in Workers :
            pc[i] \in {"put", "delay"} =>
               /\ Plain(ActionsBy(i)) = << RequestAction(calls[i]) >>
               /\ tokenCalls[i] = 0 /\ fetchCalls[i] = <<>> /\ api[i] = NoApi
               /\ pc[i] = "delay" => timer[i] \in 0 .. Get(calls[i].delay)
               /\ pc[i] = "put" => (timer[i] = Never /\ ENABLED Start(i)))
    /\ [][\A i \in Workers :
            /\ (pc[i] = "put" /\ pc'[i] # "put") =>
                 IF calls[i].delay # Undefined
                 THEN /\ pc'[i] = "delay" /\ timer'[i] = Get(calls[i].delay)
                      /\ tokenCalls' = tokenCalls /\ fetchCalls' = fetchCalls
                 ELSE pc'[i] = "race" /\ timer'[i] = TIMEOUT /\ CallIssued(i)
            /\ (pc[i] = "delay" /\ pc'[i] # "delay") =>
                 pc'[i] = "race" /\ timer'[i] = TIMEOUT /\ CallIssued(i)]_vars

\* An invocation delayed by 6000 ms is 6000 ms into its race, 12000 ms after
\* its dispatch, and still waits for fetch, which is due.
C11_Witness ==
    \E i \in Workers :
        /\ Dispatched(i) /\ calls[i].delay = Some(6000)
        /\ pc[i] = "race" /\ elapsed[i] = 6000 /\ timer[i] = TIMEOUT - 6000
        /\ api[i].st = "fetch" /\ api[i].left = 0

\* Invocation i is over with a failure action or dropped by the timeout.
EndedBadly(i) ==
    /\ Dispatched(i) /\ pc[i] = "done"
    /\ FailurePositions(i) # {} \/ hist[i].race = "timeout"

\* C12: whatever invocations have ended in a failure (HTTP error, rejected
\* fetch, undecodable body, rejected token provider) or in a timeout drop,
\* ApiSaga's takeEvery still runs and the next REST_CALL action is taken:
\* the step that takes it forks its worker, whose put of the request action
\* can run next and puts that action.
C12_ListenerSurvives ==
    /\ []((\E i \in Workers : EndedBadly(i)) =>
            /\ listening
            /\ (Len(calls) < MaxInv /\ ~Flushing)
                  => ENABLED (\E p \in Payloads : Dispatch(p))
            /\ \A n \in Workers :
                  (pc[n] = "forked" /\ \A j \in Workers \ {n} : pc[j] = "done")
                     => ENABLED RequestPut(n))
    /\ [][(\E i \in Workers : EndedBadly(i)) =>
            /\ Forks => pc'[Len(calls')] = "forked"
            /\ \A n \in Workers :
                  (pc[n] = "forked" /\ pc'[n] # "forked") =>
                     /\ emitted' = emitted
                           \o <<Put(n, "request", RequestAction(calls[n]))>>
                     /\ pc'[n] = "put"]_vars

\* The first invocation failed in the catch block; the second was dispatched
\* after that and succeeded.
C12_Witness ==
    /\ Len(calls) = 2
    /\ hist[1].race = "error" \/ hist[1].json = "error"
    /\ \E f \in FailurePositions(1), r \in RequestPositions(2) : f < r
    /\ pc[2] = "done" /\ SuccessPositions(2) # {}

\* What an invocation with payload p puts when it runs alone and h is what
\* settled for it: the request action, then nothing while nothing reached
\* the worker or after the timeout won, a failure with {} after a rejection
\* or an undecodable body, else success or failure by the status with the
\* decoded body.
AloneTrace(p, h) ==
    << [type |-> p.types.request, payload |-> JsUndefined, meta |-> p.meta] >>
    \o (CASE h.race = "error" \/ (h.race = "raw" /\ h.json = "error") ->
               << [type |-> p.types.failure, payload |-> EmptyObject,
                   meta |-> p.meta] >>
          [] h.race = "raw" /\ h.json = "ok" /\ h.status >= 400 ->
               << [type |-> p.types.failure,
                   payload |-> JsonParse(h.body).value, meta |-> p.meta] >>
          [] h.race = "raw" /\ h.json = "ok" /\ h.status < 400 ->
               << [type |-> p.types.success,
                   payload |-> JsonParse(h.body).value, meta |-> p.meta] >>
          [] OTHER -> << >>)

\* C13: in every state, with one invocation or two interleaved in any way,
\* the actions of each invocation, in order, are those given by its own
\* payload and its own token, fetch and decode outcomes alone (the same in
\* the states where it is the only invocation); so none is put with the
\* labels, payload or meta of the other.
C13_NoInterference ==
    \A i \in Workers :
        Dispatched(i) =>
            Plain(ActionsBy(i)) = IF pc[i] = "forked" THEN <<>>
                                  ELSE AloneTrace(calls[i], hist[i])

\* Two invocations with different payloads were in flight together: the
\* second was dispatched and failed before the first succeeded.
C13_Witness ==
    /\ Len(calls) = 2
    /\ calls[1].types # calls[2].types /\ calls[1].meta # calls[2].meta
    /\ \E s1 \in SuccessPositions(1), f2 \in FailurePositions(2) : f2 < s1
    /\ hist[1].body # hist[2].body

\* C14: a response that reached the worker (fetch resolved before the
\* timeout) and whose decoding settles leads to the invocation being over
\* with exactly one terminal action; a rejection that reached the worker has
\* done so at once; and an invocation that is over has no terminal action
\* only when the timeout won its race.
C14_SettledTerminates ==
    /\ \A i \in Workers :
         (pc[i] = "json" /\ raw[i].left # Never)
            ~> (pc[i] = "done" /\ Cardinality(TerminalPositions(i)) = 1)
    /\ [](\A i \in Workers :
            (Dispatched(i) /\ hist[i].race = "error") =>
               (pc[i] = "done" /\ Cardinality(TerminalPositions(i)) = 1))
    /\ [](\A i \in Workers :
            (Dispatched(i) /\ pc[i] = "done" /\ TerminalPositions(i) = {}) =>
               hist[i].race = "timeout")

\* One invocation is over after its body was decoded, the other after fetch
\* rejected, each with its one terminal action.
C14_Witness ==
    /\ Len(calls) = 2
    /\ pc[1] = "done" /\ hist[1].race = "raw" /\ hist[1].json = "ok"
    /\ Cardinality(TerminalPositions(1)) = 1
    /\ pc[2] = "done" /\ hist[2].race = "error" /\ hist[2].fetch = "rejected"
    /\ Cardinality(TerminalPositions(2)) = 1

\* C15: the log orders the request actions as the calls were dispatched and
\* every invocation's request action before its own terminal action, and
\* nothing more: of two workers whose decoded bodies are both ready, either
\* can put its terminal action next, whichever was dispatched first (once
\* the scheduler has run what it has queued).
C15_NoOrderAcrossInvocations ==
    /\ \A a, b \in Workers :
          (a < b /\ Dispatched(b)) =>
             \A ra \in RequestPositions(a), rb \in RequestPositions(b) : ra < rb
    /\ \A i \in Workers :
          (Dispatched(i) /\ TerminalPositions(i) # {}) =>
             \E r \in RequestPositions(i) :
                \A t \in TerminalPositions(i) : r < t
    /\ \A i \in Workers :
          (pc[i] = "json" /\ IsDue(raw[i].left) /\ ~Flushing)
             => ENABLED JsonSettle(i)

\* The second invocation's terminal action is in the log before the first's,
\* the first having waited for its delay.
C15_Witness ==
    /\ Len(calls) = 2
    /\ IsDefined(calls[1].delay) /\ ~IsDefined(calls[2].delay)
    /\ \E ra \in RequestPositions(1), rb \in RequestPositions(2) : ra < rb
    /\ \E ta \in TerminalPositions(1), tb \in TerminalPositions(2) : tb < ta

\* The terminal actions are in the log in dispatch order.
C15_InOrder ==
    /\ Len(calls) = 2
    /\ \E ta \in TerminalPositions(1), tb \in TerminalPositions(2) : ta < tb

\* Both workers hold a decoded body that is ready, neither has put its
\* terminal action: either order can follow.
C15_BothReady ==
    /\ Len(calls) = 2
    /\ \A i \in Workers : pc[i] = "json" /\ IsDue(raw[i].left)
    /\ ENABLED JsonSettle(1) /\ ENABLED JsonSettle(2)

\* The token provider of worker i was called and will never settle.
TokenHangs(i) == api[i].st = "token" /\ api[i].left = Never

\* Nothing of worker i is pending that can still happen: the worker is over
\* and so is its makeApiRequest call, or the call waits for something that
\* never settles.
Quiescent(i) ==
    /\ pc[i] = "done"
    /\ api[i].st \in {"token", "fetch"} => api[i].left = Never

\* C16 as stated: once nothing more can happen for an invocation, fetch was
\* called at most once, and exactly once unless the token provider rejected.
C16_OnceUnlessTokenRejected ==
    \A i \in Workers :
        Dispatched(i) =>
            /\ Len(fetchCalls[i]) <= 1
            /\ Quiescent(i) =>
                  (Len(fetchCalls[i]) = 1 \/ hist[i].token = "rejected")

\* C16, amended: fetch is called at most once per invocation and the token
\* provider at most once; fetch has been called exactly once as soon as
\* makeApiRequest got past the token provider, whatever the outcome of the
\* call; it has not been called while the delay or the token provider is
\* pending, and it is never called when the token provider rejected or never
\* settles.
C16_NoRetries ==
    \A i \in Workers :
        /\ Len(fetchCalls[i]) <= 1
        /\ tokenCalls[i] <= 1
        /\ Len(fetchCalls[i]) = 1 <=>
               api[i].st \in {"fetch", "resolved", "fetchRejected"}
        /\ (Dispatched(i) /\ Quiescent(i)) =>
               \/ Len(fetchCalls[i]) = 1
               \/ hist[i].token = "rejected"
               \/ TokenHangs(i)
        /\ (hist[i].token = "rejected" \/ TokenHangs(i)) => fetchCalls[i] = <<>>

\* Two invocations are over with one fetch call each: one failed on a status
\* of 400 or more, the other was dropped by the timeout.
C16_Witness ==
    /\ Len(calls) = 2
    /\ Quiescent(1) /\ Quiescent(2)
    /\ Len(fetchCalls[1]) = 1 /\ Len(fetchCalls[2]) = 1
    /\ FailurePositions(1) # {} /\ hist[1].json = "ok" /\ hist[1].status >= 400
    /\ hist[2].race = "timeout"

\* C17: the timer of the race runs from the call of makeApiRequest, through
\* the token provider's time and the time of fetch alike, and the token's
\* arrival does not restart it; a worker that the timeout ends while the token
\* provider is pending puts nothing; and the token can still arrive after
\* that, makeApiRequest then calls fetch, and neither that call nor its
\* outcome puts an action or revives the worker.
C17_TokenInsideRace ==
    /\ [](\A i \in Workers :
            pc[i] = "race" =>
               /\ api[i].st \in {"token", "fetch"}
               /\ timer[i] + elapsed[i] = TIMEOUT)
    /\ [](\A i \in Workers :
            (pc[i] = "done" /\ api[i].st = "token" /\ IsDue(api[i].left)
                /\ ~Flushing) =>
               ENABLED (\E tok \in Tokens : TokenResolve(i, tok)))
    /\ [][\A i \in Workers :
            /\ (pc[i] = "race" /\ api[i].st = "token" /\ pc'[i] = "done"
                   /\ api'[i].st = "token") =>
                  (emitted' = emitted /\ hist'[i].race = "timeout")
            /\ (pc[i] = "done" /\ api'[i].st # api[i].st) =>
                  (emitted' = emitted /\ pc' = pc /\ timer' = timer)]_vars

\* The token took less than the timeout and so did fetch, together they took
\* more: the worker was dropped by the timeout while fetch was pending.
C17_Witness ==
    \E i \in Workers :
        /\ Dispatched(i) /\ pc[i] = "done" /\ hist[i].race = "timeout"
        /\ hist[i].token = "resolved"
        /\ api[i].st = "fetch" /\ api[i].left \in 1 .. (TIMEOUT - 1)
        /\ Len(ActionsBy(i)) = 1

\* The worker was dropped while the token provider was pending; the token
\* arrived afterwards, fetch was called and resolved, and the worker has put
\* its request action only.
C17_LateFetch ==
    \E i \in Workers :
        /\ Dispatched(i) /\ pc[i] = "done" /\ hist[i].race = "timeout"
        /\ hist[i].token = "resolved" /\ hist[i].fetch = "resolved"
        /\ Len(fetchCalls[i]) = 1
        /\ Len(ActionsBy(i)) = 1

\* The worker was dropped and its token provider never settles.
C17_TokenNever ==
    \E i \in Workers :
        /\ Dispatched(i) /\ pc[i] = "done" /\ hist[i].race = "timeout"
        /\ TokenHangs(i)
        /\ Len(ActionsBy(i)) = 1

\* C18: a worker that decodes a body has no timer left, so the timeout
\* cannot end it and it has put no terminal action yet; it leaves the
\* decoding only when the decoding settles, however long after the call was
\* issued, and then it is over and has put exactly one terminal action; and
\* while the decoding never settles it stays where it is.
C18_DecodeOutsideRace ==
    /\ [](\A i \in Workers :
            pc[i] = "json" =>
               /\ timer[i] = Never
               /\ ~ENABLED Timeout(i)
               /\ TerminalPositions(i) = {}
               /\ (IsDue(raw[i].left) /\ ~Flushing) => ENABLED JsonSettle(i))
    /\ [](\A i \in Workers :
            (Dispatched(i) /\ hist[i].late) =>
               (pc[i] = "done" /\ Cardinality(TerminalPositions(i)) = 1))
    /\ [][\A i \in Workers :
            /\ (pc[i] = "json" /\ pc'[i] # "json") =>
                  /\ IsDue(raw[i].left)
                  /\ pc'[i] = "done"
                  /\ Len(emitted') = Len(emitted) + 1
                  /\ emitted'[Len(emitted')].by = i
                  /\ emitted'[Len(emitted')].kind \in {"success", "failure"}
            /\ (pc[i] = "json" /\ raw[i].left = Never) =>
                  (pc'[i] = "json" /\ raw'[i].left = Never)]_vars

\* A terminal action was put for a body decoded more than 10000 ms after
\* the call was issued.
C18_Witness ==
    \E i \in Workers :
        /\ Dispatched(i) /\ pc[i] = "done" /\ hist[i].late
        /\ hist[i].race = "raw"
        /\ Cardinality(TerminalPositions(i)) = 1

\* The decoding never settles and nothing else is pending: the worker stays
\* in the decoding with its request action only.
C18_NeverSettles ==
    \E i \in Workers :
        /\ pc[i] = "json" /\ raw[i].left = Never
        /\ Pending = {}
        /\ Len(ActionsBy(i)) = 1

\* The part of a URL after the given prefix.
AfterPrefix(url, prefix) == SubSeq(url, Len(prefix) + 1, Len(url))

\* url is prefix followed by something.
StartsWith(url, prefix) ==
    Len(url) >= Len(prefix) /\ SubSeq(url, 1, Len(prefix)) = prefix

\* C19: every call of fetch by an invocation has the invocation's method and
\* body as they were dispatched, and a URL that starts with the server
\* override when one is set and not empty and with the configured base URL
\* otherwise, goes on with /api, and ends with the endpoint, less one "/"
\* when the endpoint ends with "/" (so that putting the "/" back gives the
\* endpoint) and as it is when it does not.
C19_RequestUrl ==
    \A i \in Workers : \A k \in 1 .. Len(fetchCalls[i]) :
        LET req == fetchCalls[i][k]
            p == calls[i]
            origin == IF p.server # Undefined /\ Get(p.server) # <<>>
                      THEN Get(p.server) ELSE config.baseUrl
            path == AfterPrefix(req.url, origin \o <<"/", "a", "p", "i">>)
        IN  /\ req.method = p.method
            /\ req.body = p.body
            /\ StartsWith(req.url, origin \o <<"/", "a", "p", "i">>)
            /\ IF p.endpoint # <<>> /\ p.endpoint[Len(p.endpoint)] = "/"
               THEN path \o <<"/">> = p.endpoint
               ELSE path = p.endpoint

\* fetch was called for an endpoint ending with two slashes and an empty
\* server override, and for an endpoint with no trailing slash and a server
\* override.
C19_Witness ==
    /\ Len(calls) = 2
    /\ calls[1].endpoint = UserPathSlashes /\ calls[1].server = Some(<<>>)
    /\ Len(fetchCalls[1]) = 1
    /\ fetchCalls[1][1].url = BaseUrl \o <<"/", "a", "p", "i", "/", "u", "/">>
    /\ calls[2].endpoint = LogoutPath /\ calls[2].server = Some(OtherServer)
    /\ Len(fetchCalls[2]) = 1
    /\ fetchCalls[2][1].url =
          OtherServer \o <<"/", "a", "p", "i", "/", "l", "o", "g", "o", "u", "t">>
    /\ fetchCalls[2][1].method = "GET" /\ fetchCalls[2][1].body = Undefined

====
